---- MODULE Spec2Model ----
(***************************************************************************)
(* A model of the quiz application in src/mobile_app.py: the CSV           *)
(* normaliser (validate_csv), the SQLite persistence helpers, the quiz     *)
(* progression functions over st.session_state, and the Streamlit button   *)
(* handlers that call them.                                                *)
(*                                                                         *)
(* Python strings are sequences of one-character strings, so that split,   *)
(* strip, lower, isdigit, int and the JSON encoding are computed and not   *)
(* assumed.  A Python value that may be None is <<>> (None) or <<v>>.      *)
(***************************************************************************)
EXTENDS Integers, Sequences, FiniteSets, TLC

VARIABLES
  session_state,  \* st.session_state
  db,             \* the SQLite database quiz_data.db
  uploaded_file,  \* the file uploader's DataFrame, None when it holds none
  validation,     \* (is_valid, result) of line 585, None before it has run
  last_call,      \* history: the function the last step called directly, and what it was given
  run_saves,      \* history: rows saved to quiz_attempts for the run in session_state
  loaded_by,      \* history: "load" or "create" when the last step loaded a quiz, else "none"
  created,        \* history: the id and quiz_data of every quiz a create returned an id for
  answered,       \* history: per question number of the run, the option last submitted for it
  presses         \* history: the Submit and Next buttons pressed in the run

vars == <<session_state, db, uploaded_file, validation, last_call, run_saves, loaded_by, created,
          answered, presses>>

(***************************************************************************)
(* Bounds of the model.                                                    *)
(***************************************************************************)
MaxQuizzes == 2
MaxAttempts == 2
MaxRows == 2
MaxScore == 3

None == <<>>
Some(v) == <<v>>
IsNone(x) == x = <<>>
Get(x) == x[1]

(***************************************************************************)
(* Python str operations.                                                  *)
(***************************************************************************)
Whitespace == {" ", "\t", "\n"}

Digits == {"0", "1", "2", "3", "4", "5", "6", "7", "8", "9"}

Digits_in_order == <<"0", "1", "2", "3", "4", "5", "6", "7", "8", "9">>

RECURSIVE lstrip(_)
lstrip(s) ==
  IF s # <<>> /\ Head(s) \in Whitespace THEN lstrip(Tail(s)) ELSE s

RECURSIVE rstrip(_)
rstrip(s) ==
  IF s # <<>> /\ s[Len(s)] \in Whitespace
    THEN rstrip(SubSeq(s, 1, Len(s) - 1))
    ELSE s

strip(s) == rstrip(lstrip(s))

(* s.split(sep) for a one-character separator: always at least one part.   *)
RECURSIVE split_from(_, _, _)
split_from(s, sep, cur) ==
  IF s = <<>> THEN <<cur>>
  ELSE IF Head(s) = sep
    THEN <<cur>> \o split_from(Tail(s), sep, <<>>)
    ELSE split_from(Tail(s), sep, Append(cur, Head(s)))

split(s, sep) == split_from(s, sep, <<>>)

contains_char(s, c) == \E i \in 1..Len(s) : s[i] = c

startswith(s, p) == Len(s) >= Len(p) /\ SubSeq(s, 1, Len(p)) = p

isdigit(s) == s # <<>> /\ \A i \in 1..Len(s) : s[i] \in Digits

digit_value(c) ==
  CASE c = "0" -> 0 [] c = "1" -> 1 [] c = "2" -> 2 [] c = "3" -> 3
    [] c = "4" -> 4 [] c = "5" -> 5 [] c = "6" -> 6 [] c = "7" -> 7
    [] c = "8" -> 8 [] c = "9" -> 9

RECURSIVE int_of(_)
int_of(s) ==
  IF s = <<>> THEN 0
  ELSE 10 * int_of(SubSeq(s, 1, Len(s) - 1)) + digit_value(s[Len(s)])

lower_char(c) ==
  CASE c = "A" -> "a" [] c = "B" -> "b" [] c = "X" -> "x" [] c = "Y" -> "y"
    [] c = "N" -> "n" [] OTHER -> c

lower(s) == [i \in 1..Len(s) |-> lower_char(s[i])]

in_list(x, list) == \E i \in 1..Len(list) : list[i] = x

(***************************************************************************)
(* json.dumps / json.loads on a list of strings.                           *)
(***************************************************************************)
(* an encoder that writes every character as it is *)
json_escape_char_raw(c) == <<c>>

json_escape_char(c) ==
  CASE c = "\"" -> <<"\\", "\"">>
    [] c = "\\" -> <<"\\", "\\">>
    [] c = "\n" -> <<"\\", "n">>
    [] c = "\t" -> <<"\\", "t">>
    [] OTHER -> <<c>>

RECURSIVE json_escape(_)
json_escape(s) ==
  IF s = <<>> THEN <<>> ELSE json_escape_char(Head(s)) \o json_escape(Tail(s))

json_dumps_str(s) == <<"\"">> \o json_escape(s) \o <<"\"">>

RECURSIVE json_dumps_items(_)
json_dumps_items(list) ==
  IF list = <<>> THEN <<>>
  ELSE IF Len(list) = 1 THEN json_dumps_str(list[1])
  ELSE json_dumps_str(Head(list)) \o <<",", " ">> \o json_dumps_items(Tail(list))

json_dumps(list) == <<"[">> \o json_dumps_items(list) \o <<"]">>

(* The decoder works on a position in the text; a result is                *)
(* [ok, val, pos], ok = FALSE standing for json.JSONDecodeError.           *)
JsonFail == [ok |-> FALSE, val |-> <<>>, pos |-> 0]

RECURSIVE json_skip_ws(_, _)
json_skip_ws(t, i) ==
  IF i <= Len(t) /\ t[i] \in Whitespace THEN json_skip_ws(t, i + 1) ELSE i

json_unescape(c) ==
  CASE c = "\"" -> <<"\"">>
    [] c = "\\" -> <<"\\">>
    [] c = "/" -> <<"/">>
    [] c = "n" -> <<"\n">>
    [] c = "t" -> <<"\t">>
    [] OTHER -> <<>>

(* the characters of a string, from just after its opening quote *)
RECURSIVE json_parse_str(_, _, _)
json_parse_str(t, i, acc) ==
  IF i > Len(t) THEN JsonFail
  ELSE IF t[i] = "\"" THEN [ok |-> TRUE, val |-> acc, pos |-> i + 1]
  ELSE IF t[i] = "\\"
    THEN IF i + 1 > Len(t) \/ json_unescape(t[i + 1]) = <<>>
           THEN JsonFail
           ELSE json_parse_str(t, i + 2, acc \o json_unescape(t[i + 1]))
  ELSE IF t[i] \in {"\n", "\t"} THEN JsonFail
  ELSE json_parse_str(t, i + 1, Append(acc, t[i]))

(* the items of an array, from the position of an item *)
RECURSIVE json_parse_items(_, _, _)
json_parse_items(t, i, acc) ==
  LET j == json_skip_ws(t, i) IN
  IF j > Len(t) \/ t[j] # "\"" THEN JsonFail
  ELSE
    LET r == json_parse_str(t, j + 1, <<>>) IN
    IF ~r.ok THEN JsonFail
    ELSE
      LET k == json_skip_ws(t, r.pos) IN
      IF k > Len(t) THEN JsonFail
      ELSE IF t[k] = "]" THEN [ok |-> TRUE, val |-> Append(acc, r.val), pos |-> k + 1]
      ELSE IF t[k] = "," THEN json_parse_items(t, k + 1, Append(acc, r.val))
      ELSE JsonFail

json_loads(t) ==
  LET i == json_skip_ws(t, 1) IN
  IF i > Len(t) \/ t[i] # "[" THEN JsonFail
  ELSE
    LET j == json_skip_ws(t, i + 1) IN
    LET r == IF j <= Len(t) /\ t[j] = "]"
               THEN [ok |-> TRUE, val |-> <<>>, pos |-> j + 1]
               ELSE json_parse_items(t, j, <<>>) IN
    IF r.ok /\ json_skip_ws(t, r.pos) = Len(t) + 1 THEN r ELSE JsonFail

(***************************************************************************)
(* The DataFrame pd.read_csv hands to validate_csv: the column names in    *)
(* file order and, per row, a cell for every column.  A cell is NaN (an    *)
(* empty or NA field) or the text str() gives for its value.               *)
(***************************************************************************)
NaN == None

notna(cell) == cell # NaN

str(cell) == IF cell = NaN THEN <<"n", "a", "n">> ELSE Get(cell)

COL_QUESTION == <<"q", "u", "e", "s", "t", "i", "o", "n">>
COL_OPTIONS == <<"o", "p", "t", "i", "o", "n", "s">>
COL_ANSWER == <<"a", "n", "s", "w", "e", "r">>
COL_OPTION1 == <<"o", "p", "t", "i", "o", "n", "1">>
COL_OPTION2 == <<"o", "p", "t", "i", "o", "n", "2">>
COL_OPTION3 == <<"o", "p", "t", "i", "o", "n", "3">>
OPTION_PREFIX == <<"o", "p", "t", "i", "o", "n">>

Valid(data) == [is_valid |-> TRUE, data |-> data, error |-> "", row |-> 0]
Invalid(error, row) == [is_valid |-> FALSE, data |-> <<>>, error |-> error, row |-> row]

strip_each(list) == [k \in 1..Len(list) |-> strip(list[k])]

(* format 1 storing the answer cell as read, not stripped *)
format1_row_raw_answer(row, i) ==
  LET question == str(row[COL_QUESTION])
      options_str == str(row[COL_OPTIONS])
      answer_str == str(row[COL_ANSWER])
      options == strip_each(split(options_str, ","))
  IN
  IF ~contains_char(options_str, ",") THEN Invalid("options_not_comma_separated", i)
  ELSE IF Len(options) < 2 THEN Invalid("at_least_2_options", i)
  ELSE IF ~in_list(strip(answer_str), options) THEN Invalid("answer_not_in_options", i)
  ELSE Valid(<<[question |-> question, options |-> options, answer |-> answer_str]>>)

(* One row of format 1 (lines 312-333): the question record, or the error. *)
format1_row(row, i) ==
  LET question == str(row[COL_QUESTION])
      options_str == str(row[COL_OPTIONS])
      answer_str == str(row[COL_ANSWER])
      options == strip_each(split(options_str, ","))
  IN
  IF ~contains_char(options_str, ",") THEN Invalid("options_not_comma_separated", i)
  ELSE IF Len(options) < 2 THEN Invalid("at_least_2_options", i)
  ELSE IF ~in_list(strip(answer_str), options) THEN Invalid("answer_not_in_options", i)
  ELSE Valid(<<[question |-> question, options |-> options, answer |-> strip(answer_str)]>>)

(* for col in option_columns: if pd.notna(row[col]): options.append(str(row[col])) *)
RECURSIVE collect_options(_, _)
collect_options(row, option_columns) ==
  IF option_columns = <<>> THEN <<>>
  ELSE (IF notna(row[Head(option_columns)]) THEN <<str(row[Head(option_columns)])>> ELSE <<>>)
       \o collect_options(row, Tail(option_columns))

(* The first option equal to the answer ignoring case (lines 383-387), as  *)
(* its index, 0 when there is none.                                        *)
RECURSIVE first_lower_match(_, _, _)
first_lower_match(options, answer, k) ==
  IF k > Len(options) THEN 0
  ELSE IF lower(options[k]) = lower(answer) THEN k
  ELSE first_lower_match(options, answer, k + 1)

(* format 2 taking the numeric answer as a 0-based index *)
format2_row_zero_based(row, option_columns, i) ==
  LET question == str(row[COL_QUESTION])
      options == collect_options(row, option_columns)
      answer0 == str(row[COL_ANSWER])
      answer_idx == int_of(answer0)
      index_ok == 0 <= answer_idx /\ answer_idx < Len(options)
      answer1 == IF isdigit(answer0) /\ index_ok THEN options[answer_idx + 1] ELSE answer0
      m == first_lower_match(options, answer1, 1)
      answer == IF in_list(answer1, options) THEN answer1
                ELSE IF m > 0 THEN options[m] ELSE answer1
  IN
  IF Len(options) < 2 THEN Invalid("at_least_2_options", i)
  ELSE IF isdigit(answer0) /\ ~index_ok THEN Invalid("answer_index_out_of_range", i)
  ELSE IF ~in_list(answer1, options) /\ m = 0 THEN Invalid("answer_not_in_options", i)
  ELSE Valid(<<[question |-> question, options |-> options, answer |-> answer]>>)

(* One row of format 2 (lines 354-396). *)
format2_row(row, option_columns, i) ==
  LET question == str(row[COL_QUESTION])
      options == collect_options(row, option_columns)
      answer0 == str(row[COL_ANSWER])
      answer_idx == int_of(answer0) - 1
      index_ok == 0 <= answer_idx /\ answer_idx < Len(options)
      answer1 == IF isdigit(answer0) /\ index_ok THEN options[answer_idx + 1] ELSE answer0
      m == first_lower_match(options, answer1, 1)
      answer == IF in_list(answer1, options) THEN answer1
                ELSE IF m > 0 THEN options[m] ELSE answer1
  IN
  IF Len(options) < 2 THEN Invalid("at_least_2_options", i)
  ELSE IF isdigit(answer0) /\ ~index_ok THEN Invalid("answer_index_out_of_range", i)
  ELSE IF ~in_list(answer1, options) /\ m = 0 THEN Invalid("answer_not_in_options", i)
  ELSE Valid(<<[question |-> question, options |-> options, answer |-> answer]>>)

(* a loop that drops a failing row and goes on with the rest *)
RECURSIVE process_rows_skips_failed(_, _, _, _, _)
process_rows_skips_failed(rows, i, has_options_column, option_columns, processed_data) ==
  IF i > Len(rows) THEN Valid(processed_data)
  ELSE LET r == IF has_options_column THEN format1_row(rows[i], i)
                 ELSE format2_row(rows[i], option_columns, i)
       IN process_rows_skips_failed(rows, i + 1, has_options_column, option_columns,
                                    IF r.is_valid THEN processed_data \o r.data
                                                  ELSE processed_data)

(* for i in range(len(data)): the first failing row returns, row numbers   *)
(* being i+1.                                                              *)
RECURSIVE process_rows(_, _, _, _, _)
process_rows(rows, i, has_options_column, option_columns, processed_data) ==
  IF i > Len(rows) THEN Valid(processed_data)
  ELSE LET r == IF has_options_column THEN format1_row(rows[i], i)
                 ELSE format2_row(rows[i], option_columns, i)
       IN
       IF ~r.is_valid THEN r
       ELSE process_rows(rows, i + 1, has_options_column, option_columns,
                         processed_data \o r.data)

(* validate_csv without the test for an empty DataFrame *)
validate_csv_accepts_empty(data) ==
  LET has_options_column == in_list(COL_OPTIONS, data.columns)
      has_option_columns == \E k \in 1..Len(data.columns) :
                               startswith(data.columns[k], OPTION_PREFIX)
      is_option_column(col) == startswith(col, OPTION_PREFIX)
      option_columns == SelectSeq(data.columns, is_option_column)
  IN
  IF has_options_column
    THEN IF ~in_list(COL_QUESTION, data.columns) \/ ~in_list(COL_ANSWER, data.columns)
           THEN Invalid("missing_columns", 0)
           ELSE process_rows(data.rows, 1, TRUE, <<>>, <<>>)
  ELSE IF has_option_columns
    THEN IF ~in_list(COL_QUESTION, data.columns) \/ ~in_list(COL_ANSWER, data.columns)
           THEN Invalid("missing_columns", 0)
           ELSE process_rows(data.rows, 1, FALSE, option_columns, <<>>)
  ELSE Invalid("invalid_format", 0)

validate_csv(data) ==
  LET has_options_column == in_list(COL_OPTIONS, data.columns)
      has_option_columns == \E k \in 1..Len(data.columns) :
                               startswith(data.columns[k], OPTION_PREFIX)
      is_option_column(col) == startswith(col, OPTION_PREFIX)
      option_columns == SelectSeq(data.columns, is_option_column)
  IN
  IF Len(data.rows) = 0 \/ Len(data.columns) = 0 THEN Invalid("empty", 0)
  ELSE IF has_options_column
    THEN IF ~in_list(COL_QUESTION, data.columns) \/ ~in_list(COL_ANSWER, data.columns)
           THEN Invalid("missing_columns", 0)
           ELSE process_rows(data.rows, 1, TRUE, <<>>, <<>>)
  ELSE IF has_option_columns
    THEN IF ~in_list(COL_QUESTION, data.columns) \/ ~in_list(COL_ANSWER, data.columns)
           THEN Invalid("missing_columns", 0)
           ELSE process_rows(data.rows, 1, FALSE, option_columns, <<>>)
  ELSE Invalid("invalid_format", 0)

(***************************************************************************)
(* The SQLite database (init_db): three tables, each a sequence of rows in *)
(* insertion order.  No statement of the program deletes a row and a       *)
(* rollback also restores sqlite_sequence, so the AUTOINCREMENT id of the  *)
(* next row is the number of rows plus one.  created_at is left out: no    *)
(* operation modelled here reads it.                                       *)
(***************************************************************************)
EmptyDb == [quizzes |-> <<>>, questions |-> <<>>, quiz_attempts |-> <<>>]

lastrowid(table) == Len(table)

(* conn.commit() makes the transaction's working copy the stored database; *)
(* conn.rollback() discards it.                                            *)
commit(stored, working) == working

(* a connection in autocommit mode: the statements already run stay *)
rollback_keeps_rows(stored, working) == working

rollback(stored, working) == stored

insert_quiz(d, title, description) ==
  [d EXCEPT !.quizzes = Append(@, [id |-> Len(@) + 1, title |-> title,
                                   description |-> description])]

(* enumerate(quiz_data): the first n question rows, positions i+1 *)
RECURSIVE insert_questions(_, _, _, _)
insert_questions(d, quiz_id, quiz_data, n) ==
  IF n = 0 THEN d
  ELSE LET before == insert_questions(d, quiz_id, quiz_data, n - 1)
           question_data == quiz_data[n]
           options_json == json_dumps(question_data.options)
       IN [before EXCEPT !.questions =
             Append(@, [id |-> Len(@) + 1, quiz_id |-> quiz_id,
                        question_text |-> question_data.question,
                        options |-> options_json,
                        correct_answer |-> question_data.answer,
                        position |-> n])]

(* fail_at is None when every statement succeeds; Some(0) when the INSERT  *)
(* of the quiz row raises, Some(k) when the INSERT of question row k       *)
(* raises, Some(len + 1) when the commit raises.                           *)
create_quiz_from_csv(d, title, description, quiz_data, fail_at) ==
  LET with_quiz == insert_quiz(d, title, description)
      quiz_id == lastrowid(with_quiz.quizzes)
      working(k) == IF k = 0 THEN d
                    ELSE insert_questions(with_quiz, quiz_id, quiz_data, k - 1)
  IN
  IF fail_at = None
    THEN [db |-> commit(d, working(Len(quiz_data) + 1)), ret |-> Some(quiz_id)]
    ELSE [db |-> rollback(d, working(Get(fail_at))), ret |-> None]

(* ORDER BY position: a stable insertion sort of the selected rows *)
RECURSIVE insert_by_position(_, _)
insert_by_position(sorted, r) ==
  IF sorted = <<>> THEN <<r>>
  ELSE IF sorted[Len(sorted)].position <= r.position THEN Append(sorted, r)
  ELSE Append(insert_by_position(SubSeq(sorted, 1, Len(sorted) - 1), r),
              sorted[Len(sorted)])

RECURSIVE order_by_position(_)
order_by_position(rows) ==
  IF rows = <<>> THEN <<>>
  ELSE insert_by_position(order_by_position(SubSeq(rows, 1, Len(rows) - 1)),
                          rows[Len(rows)])

get_quiz_by_id(d, quiz_id) ==
  LET is_quiz(r) == r.id = quiz_id
      found == SelectSeq(d.quizzes, is_quiz)
      of_quiz(r) == r.quiz_id = quiz_id
      questions == order_by_position(SelectSeq(d.questions, of_quiz))
      processed(q) ==
        LET parsed == json_loads(q.options) IN
        [question |-> q.question_text,
         options |-> IF parsed.ok THEN parsed.val ELSE <<>>,
         answer |-> q.correct_answer]
  IN
  IF found = <<>>
    THEN [quiz |-> None, questions |-> <<>>]
    ELSE [quiz |-> Some(found[1]),
          questions |-> [k \in 1..Len(questions) |-> processed(questions[k])]]

(* percentage = (score / max_score) * 100 if max_score > 0 else 0, kept    *)
(* as the exact fraction num/den.                                          *)
percentage_of(score, max_score) ==
  IF max_score > 0 THEN [num |-> score * 100, den |-> max_score]
                   ELSE [num |-> 0, den |-> 1]

save_quiz_attempt(d, quiz_id, user_name, score, max_score, fails) ==
  LET working == [d EXCEPT !.quiz_attempts =
                    Append(@, [id |-> Len(@) + 1, quiz_id |-> quiz_id,
                               user_name |-> user_name, score |-> score,
                               max_score |-> max_score,
                               percentage |-> percentage_of(score, max_score)])]
  IN
  IF fails THEN [db |-> rollback(d, working), ret |-> FALSE]
           ELSE [db |-> commit(d, working), ret |-> TRUE]

ANONYMOUS == <<"A", "n", "o", "n", "y", "m", "o", "u", "s">>

(* an ORDER BY score without DESC *)
RECURSIVE insert_by_score_ascending(_, _)
insert_by_score_ascending(sorted, r) ==
  IF sorted = <<>> THEN <<r>>
  ELSE IF sorted[Len(sorted)].score <= r.score THEN Append(sorted, r)
  ELSE Append(insert_by_score_ascending(SubSeq(sorted, 1, Len(sorted) - 1), r),
              sorted[Len(sorted)])

(* ORDER BY score DESC: an insertion sort of the selected rows, taken in    *)
(* the order the scan visits them; rows of equal score keep that order      *)
RECURSIVE insert_by_score(_, _)
insert_by_score(sorted, r) ==
  IF sorted = <<>> THEN <<r>>
  ELSE IF sorted[Len(sorted)].score >= r.score THEN Append(sorted, r)
  ELSE Append(insert_by_score(SubSeq(sorted, 1, Len(sorted) - 1), r),
              sorted[Len(sorted)])

RECURSIVE order_by_score_desc(_)
order_by_score_desc(rows) ==
  IF rows = <<>> THEN <<>>
  ELSE insert_by_score(order_by_score_desc(SubSeq(rows, 1, Len(rows) - 1)),
                       rows[Len(rows)])

(* LIMIT ?: the first limit rows; SQLite takes a negative limit as none *)
limit_rows(rows, limit) ==
  IF limit < 0 \/ limit >= Len(rows) THEN rows ELSE SubSeq(rows, 1, limit)

(* SQL leaves the order of rows of equal score open: scan is the order in  *)
(* which the query visits the rows of the quiz, a permutation of them.     *)
get_quiz_leaderboard(d, quiz_id, limit, scan) ==
  LET of_quiz(r) == r.quiz_id = quiz_id
      selected == SelectSeq(d.quiz_attempts, of_quiz)
      visited == [k \in 1..Len(selected) |-> selected[scan[k]]]
      attempts == limit_rows(order_by_score_desc(visited), limit)
  IN [k \in 1..Len(attempts) |->
        [user_name |-> IF attempts[k].user_name # <<>> THEN attempts[k].user_name
                                                        ELSE ANONYMOUS,
         score |-> attempts[k].score,
         max_score |-> attempts[k].max_score,
         percentage |-> attempts[k].percentage]]

(***************************************************************************)
(* st.session_state and the quiz progression functions (lines 416-473).    *)
(* quiz_id is None while the attribute has never been set.                 *)
(***************************************************************************)
InitialSessionState ==
  [quiz_data |-> None, current_question |-> 0, score |-> 0,
   selected_option |-> None, submitted |-> FALSE, quiz_completed |-> FALSE,
   quiz_id |-> None]

(* random.shuffle: p is the permutation drawn *)
shuffle_quiz_data(quiz_data, p) == [k \in 1..Len(quiz_data) |-> quiz_data[p[k]]]

(* reset_quiz without the line that clears quiz_completed *)
reset_quiz_keeps_completed(ss) ==
  [ss EXCEPT !.quiz_data = None, !.current_question = 0, !.score = 0,
             !.selected_option = None, !.submitted = FALSE]

(* reset_quiz without the line that clears the score *)
reset_quiz_keeps_score(ss) ==
  [ss EXCEPT !.quiz_data = None, !.current_question = 0,
             !.selected_option = None, !.submitted = FALSE,
             !.quiz_completed = FALSE]

reset_quiz(ss) ==
  [ss EXCEPT !.quiz_data = None, !.current_question = 0, !.score = 0,
             !.selected_option = None, !.submitted = FALSE,
             !.quiz_completed = FALSE]

select_option(ss, option) ==
  [ss EXCEPT !.selected_option = Some(option), !.submitted = FALSE]

(* the flag set before the test for a selection *)
submit_answer_flags_first(ss) ==
  LET flagged == [ss EXCEPT !.submitted = TRUE] IN
  IF ss.selected_option # None
    THEN IF ss.quiz_data = None THEN flagged
         ELSE LET current_question == Get(ss.quiz_data)[ss.current_question + 1] IN
              IF Get(ss.selected_option) = current_question.answer
                THEN [flagged EXCEPT !.score = @ + 1]
                ELSE flagged
    ELSE flagged

(* a comparison with the first question's answer, whatever the index *)
submit_answer_first_question(ss) ==
  IF ss.selected_option # None
    THEN LET flagged == [ss EXCEPT !.submitted = TRUE] IN
         IF ss.quiz_data = None THEN flagged
         ELSE LET current_question == Get(ss.quiz_data)[1] IN
              IF Get(ss.selected_option) = current_question.answer
                THEN [flagged EXCEPT !.score = @ + 1]
                ELSE flagged
    ELSE ss

(* With no quiz loaded, quiz_data[...] raises TypeError after submitted    *)
(* has been set.                                                           *)
submit_answer(ss) ==
  IF ss.selected_option # None
    THEN LET flagged == [ss EXCEPT !.submitted = TRUE] IN
         IF ss.quiz_data = None THEN flagged
         ELSE LET current_question == Get(ss.quiz_data)[ss.current_question + 1] IN
              IF Get(ss.selected_option) = current_question.answer
                THEN [flagged EXCEPT !.score = @ + 1]
                ELSE flagged
    ELSE ss

(* an advance tested against len(quiz_data) instead of len(quiz_data) - 1 *)
next_question_past_end(ss) ==
  IF ss.quiz_data = None THEN ss
  ELSE IF ss.current_question < Len(Get(ss.quiz_data))
    THEN [ss EXCEPT !.current_question = @ + 1, !.selected_option = None,
                    !.submitted = FALSE]
    ELSE [ss EXCEPT !.quiz_completed = TRUE]

(* an advance that leaves the previous question's selection in place *)
next_question_keeps_selection(ss) ==
  IF ss.quiz_data = None THEN ss
  ELSE IF ss.current_question < Len(Get(ss.quiz_data)) - 1
    THEN [ss EXCEPT !.current_question = @ + 1, !.submitted = FALSE]
    ELSE [ss EXCEPT !.quiz_completed = TRUE]

(* With no quiz loaded, len(None) raises TypeError before any assignment.  *)
next_question(ss) ==
  IF ss.quiz_data = None THEN ss
  ELSE IF ss.current_question < Len(Get(ss.quiz_data)) - 1
    THEN [ss EXCEPT !.current_question = @ + 1, !.selected_option = None,
                    !.submitted = FALSE]
    ELSE [ss EXCEPT !.quiz_completed = TRUE]

(* "if not st.session_state.quiz_data": None and the empty list are falsy  *)
quiz_data_falsy(ss) == IF ss.quiz_data = None THEN TRUE ELSE Get(ss.quiz_data) = <<>>

(***************************************************************************)
(* The files a user uploads in the session-level specifications: one that  *)
(* validates (two questions, format 2), four that do not, failing at the   *)
(* first or at the second row, and one that has a header line and no row.  *)
(***************************************************************************)
Text1(c) == Some(<<c>>)

RowB(question, option1, option2, answer) ==
  (COL_QUESTION :> question) @@ (COL_OPTION1 :> option1)
    @@ (COL_OPTION2 :> option2) @@ (COL_ANSWER :> answer)

RowA(question, options, answer) ==
  (COL_QUESTION :> question) @@ (COL_OPTIONS :> options) @@ (COL_ANSWER :> answer)

FrameB(rows) ==
  [columns |-> <<COL_QUESTION, COL_OPTION1, COL_OPTION2, COL_ANSWER>>, rows |-> rows]

FrameA(rows) ==
  [columns |-> <<COL_QUESTION, COL_OPTIONS, COL_ANSWER>>, rows |-> rows]

SampleFrames ==
  { FrameB(<<RowB(Text1("1"), Text1("X"), Text1("Y"), Text1("2")),
             RowB(Text1("2"), Text1("a"), Text1("A"), Text1("A"))>>),
    FrameA(<<RowA(Text1("q"), Text1("A"), Text1("A"))>>),
    FrameB(<<RowB(Text1("1"), Text1("X"), Text1("Y"), Text1("2")),
             RowB(Text1("2"), Text1("a"), Text1("A"), Text1("3"))>>),
    FrameB(<<RowB(Text1("1"), Text1("X"), Text1("Y"), Text1("2")),
             RowB(Text1("2"), Text1("a"), NaN, Text1("a"))>>),
    FrameA(<<RowA(Text1("1"), Some(<<"X", ",", "Y">>), Text1("Y")),
             RowA(Text1("2"), Some(<<"a", ",", "A">>), Text1("b"))>>),
    FrameB(<<>>) }

SampleOptions == {<<"X">>, <<"Y">>, <<"a">>, <<"A">>}

QUIZ_TITLE == <<"M", "y", " ", "Q", "u", "i", "z">>
QUIZ_DESCRIPTION == <<"A">>

(* the text input's default: no name given *)
UserNames == {<<>>}

NoCall == [call |-> "none"]

NoPresses == [submits |-> 0, nexts |-> 0]

Init ==
  /\ session_state = InitialSessionState
  /\ db = EmptyDb
  /\ uploaded_file = None
  /\ validation = None
  /\ last_call = NoCall
  /\ run_saves = 0
  /\ loaded_by = "none"
  /\ created = <<>>
  /\ answered = <<>>
  /\ presses = NoPresses

(***************************************************************************)
(* The handlers of the script.  Each action is one script run: its guard   *)
(* is the path of if-statements that renders the control, its body what    *)
(* the click runs.  The sidebar radio's value is an input of the run (the  *)
(* user sets it at will, and setting it changes nothing else), so a        *)
(* handler under "nav_option == ..." is enabled whenever the rest of its   *)
(* path is.  A widget that a run does not render loses its value: the      *)
(* uploader holds no file once a quiz is loaded.                           *)
(***************************************************************************)

(* the file uploader and the validation the same run makes (lines 545-585) *)
Upload(f) ==
  /\ quiz_data_falsy(session_state)
  /\ uploaded_file' = Some(f)
  /\ validation' = Some(validate_csv(f))
  /\ loaded_by' = "none"
  /\ last_call' = NoCall
  /\ UNCHANGED <<session_state, db, run_saves, created, answered, presses>>

(* a create that loads the new questions without storing the new id *)
CreateQuiz_keeps_quiz_id(fail_at, p) ==
  /\ quiz_data_falsy(session_state)
  /\ uploaded_file # None
  /\ Get(validation).is_valid
  /\ Len(db.quizzes) < MaxQuizzes
  /\ LET result == Get(validation).data
         r == create_quiz_from_csv(db, QUIZ_TITLE, QUIZ_DESCRIPTION, result, fail_at)
     IN /\ db' = r.db
        /\ IF r.ret # None
             THEN /\ session_state' =
                       [session_state EXCEPT
                          !.quiz_data = Some(shuffle_quiz_data(result, p))]
                  /\ created' = Append(created, [id |-> Get(r.ret), quiz_data |-> result])
                  /\ uploaded_file' = None
                  /\ validation' = None
                  /\ loaded_by' = "create"
                  /\ answered' = <<>>
                  /\ presses' = NoPresses
             ELSE /\ loaded_by' = "none"
                  /\ UNCHANGED <<session_state, created, uploaded_file, validation, answered, presses>>
  /\ run_saves' = 0
  /\ last_call' = NoCall

(* "Create Quiz" (lines 587-611) *)
CreateQuiz(fail_at, p) ==
  /\ quiz_data_falsy(session_state)
  /\ uploaded_file # None
  /\ Get(validation).is_valid
  /\ Len(db.quizzes) < MaxQuizzes
  /\ LET result == Get(validation).data
         r == create_quiz_from_csv(db, QUIZ_TITLE, QUIZ_DESCRIPTION, result, fail_at)
     IN /\ db' = r.db
        /\ IF r.ret # None
             THEN /\ session_state' =
                       [session_state EXCEPT
                          !.quiz_id = r.ret,
                          !.quiz_data = Some(shuffle_quiz_data(result, p))]
                  /\ created' = Append(created, [id |-> Get(r.ret), quiz_data |-> result])
                  /\ uploaded_file' = None
                  /\ validation' = None
                  /\ loaded_by' = "create"
                  /\ answered' = <<>>
                  /\ presses' = NoPresses
             ELSE /\ loaded_by' = "none"
                  /\ UNCHANGED <<session_state, created, uploaded_file, validation, answered, presses>>
  /\ run_saves' = 0
  /\ last_call' = NoCall

(* "Load Selected Quiz" (lines 495-518) *)
LoadSelectedQuiz(quiz_id, p) ==
  /\ db.quizzes # <<>>
  /\ LET r == get_quiz_by_id(db, quiz_id) IN
     IF r.quiz # None /\ r.questions # <<>>
       THEN /\ session_state' =
                 [reset_quiz([session_state EXCEPT !.quiz_id = Some(Get(r.quiz).id)])
                    EXCEPT !.quiz_data = Some(shuffle_quiz_data(r.questions, p))]
            /\ run_saves' = 0
            /\ loaded_by' = "load"
            /\ answered' = <<>>
            /\ presses' = NoPresses
       ELSE /\ loaded_by' = "none"
            /\ UNCHANGED <<session_state, run_saves, answered, presses>>
  /\ uploaded_file' = None
  /\ validation' = None
  /\ last_call' = NoCall
  /\ UNCHANGED <<db, created>>

(* a save that passes total_questions and correct_answers the other way   *)
(* round                                                                   *)
SaveScore_swaps_arguments(user_name, fails) ==
  /\ ~quiz_data_falsy(session_state)
  /\ session_state.quiz_completed
  /\ session_state.quiz_id # None
  /\ Len(db.quiz_attempts) < MaxAttempts
  /\ LET total_questions == Len(Get(session_state.quiz_data))
         correct_answers == session_state.score
         r == save_quiz_attempt(db, Get(session_state.quiz_id), user_name,
                                total_questions, correct_answers, fails)
     IN /\ db' = r.db
        /\ run_saves' = IF r.ret THEN run_saves + 1 ELSE run_saves
  /\ loaded_by' = "none"
  /\ last_call' = NoCall
  /\ UNCHANGED <<session_state, uploaded_file, validation, created, answered, presses>>

(* "Save Score to Leaderboard" (lines 706-743) *)
SaveScore(user_name, fails) ==
  /\ ~quiz_data_falsy(session_state)
  /\ session_state.quiz_completed
  /\ session_state.quiz_id # None
  /\ Len(db.quiz_attempts) < MaxAttempts
  /\ LET total_questions == Len(Get(session_state.quiz_data))
         correct_answers == session_state.score
         r == save_quiz_attempt(db, Get(session_state.quiz_id), user_name,
                                correct_answers, total_questions, fails)
     IN /\ db' = r.db
        /\ run_saves' = IF r.ret THEN run_saves + 1 ELSE run_saves
  /\ loaded_by' = "none"
  /\ last_call' = NoCall
  /\ UNCHANGED <<session_state, uploaded_file, validation, created, answered, presses>>

(* a new browser session: initialize_session_state (lines 423-441) on an   *)
(* empty st.session_state; the database file stays                         *)
NewSession ==
  /\ session_state' = InitialSessionState
  /\ uploaded_file' = None
  /\ validation' = None
  /\ run_saves' = 0
  /\ loaded_by' = "none"
  /\ answered' = <<>>
  /\ presses' = NoPresses
  /\ last_call' = NoCall
  /\ UNCHANGED <<db, created>>

Session(ss) ==
  /\ session_state' = ss
  /\ loaded_by' = "none"
  /\ UNCHANGED <<db, uploaded_file, validation, created>>

(* the history of submitted options after submit_answer has run on ss: the *)
(* selected option, against the number (index + 1) of the current question *)
record_answer(ss, a) ==
  IF ss.selected_option = None \/ ss.quiz_data = None THEN a
  ELSE ((ss.current_question + 1) :> Get(ss.selected_option)) @@ a

(* "Reset Quiz" in the sidebar, "Take Another Quiz" on the results page *)
ClickReset ==
  /\ Session(reset_quiz(session_state))
  /\ run_saves' = 0
  /\ answered' = <<>>
  /\ presses' = NoPresses
  /\ last_call' = NoCall

(* option buttons that stay enabled once the question is submitted *)
ClickOption_never_disabled(option) ==
  /\ ~quiz_data_falsy(session_state)
  /\ ~session_state.quiz_completed
  /\ in_list(option, Get(session_state.quiz_data)[session_state.current_question + 1].options)
  /\ Session(select_option(session_state, option))
  /\ last_call' = NoCall
  /\ UNCHANGED <<run_saves, answered, presses>>

(* the option buttons (lines 629-664) *)
ClickOption(option) ==
  /\ ~quiz_data_falsy(session_state)
  /\ ~session_state.quiz_completed
  /\ in_list(option, Get(session_state.quiz_data)[session_state.current_question + 1].options)
  /\ ~session_state.submitted
  /\ Session(select_option(session_state, option))
  /\ last_call' = NoCall
  /\ UNCHANGED <<run_saves, answered, presses>>

(* a Submit button that stays enabled once the question is submitted *)
ClickSubmit_never_disabled ==
  /\ ~quiz_data_falsy(session_state)
  /\ ~session_state.quiz_completed
  /\ session_state.selected_option # None
  /\ Session(submit_answer(session_state))
  /\ answered' = record_answer(session_state, answered)
  /\ presses' = [presses EXCEPT !.submits = @ + 1]
  /\ last_call' = NoCall
  /\ UNCHANGED run_saves

(* "Submit Answer" (lines 678-686) *)
ClickSubmit ==
  /\ ~quiz_data_falsy(session_state)
  /\ ~session_state.quiz_completed
  /\ session_state.selected_option # None
  /\ ~session_state.submitted
  /\ Session(submit_answer(session_state))
  /\ answered' = record_answer(session_state, answered)
  /\ presses' = [presses EXCEPT !.submits = @ + 1]
  /\ last_call' = NoCall
  /\ UNCHANGED run_saves

(* "Next Question" (lines 689-697) *)
ClickNext ==
  /\ ~quiz_data_falsy(session_state)
  /\ ~session_state.quiz_completed
  /\ session_state.submitted
  /\ Session(next_question(session_state))
  /\ presses' = [presses EXCEPT !.nexts = @ + 1]
  /\ last_call' = NoCall
  /\ UNCHANGED <<run_saves, answered>>

FailPoints(quiz_data) == {None} \cup { Some(k) : k \in 0..(Len(quiz_data) + 1) }

Shuffles(n) == Permutations(1..n)

Loads ==
  \/ \E f \in SampleFrames : Upload(f)
  \/ \E fail_at \in FailPoints(IF validation = None THEN <<>> ELSE Get(validation).data) :
       \E p \in Shuffles(IF validation = None THEN 0 ELSE Len(Get(validation).data)) :
         CreateQuiz(fail_at, p)
  \/ \E quiz_id \in 1..Len(db.quizzes) :
       \E p \in Shuffles(Len(get_quiz_by_id(db, quiz_id).questions)) :
         LoadSelectedQuiz(quiz_id, p)
  \/ NewSession
  \/ ClickReset

(* the script as the presentation layer lets the user drive it *)
Next ==
  \/ Loads
  \/ \E user_name \in UserNames : \E fails \in BOOLEAN : SaveScore(user_name, fails)
  \/ \E option \in SampleOptions : ClickOption(option)
  \/ ClickSubmit
  \/ ClickNext

Spec == Init /\ [][Next]_vars

(***************************************************************************)
(* The progression functions as a caller may invoke them: in any state,    *)
(* whatever the buttons' disabled flags say.                               *)
(***************************************************************************)
Called(name) == [call |-> name, before |-> session_state]

CallSelectOption(option) ==
  /\ Session(select_option(session_state, option))
  /\ last_call' = Called("select_option")
  /\ UNCHANGED <<run_saves, answered, presses>>

CallSubmitAnswer ==
  /\ session_state.score < MaxScore
  /\ Session(submit_answer(session_state))
  /\ answered' = record_answer(session_state, answered)
  /\ last_call' = Called("submit_answer")
  /\ UNCHANGED <<run_saves, presses>>

CallNextQuestion ==
  /\ Session(next_question(session_state))
  /\ last_call' = Called("next_question")
  /\ UNCHANGED <<run_saves, answered, presses>>

CallResetQuiz ==
  /\ Session(reset_quiz(session_state))
  /\ run_saves' = 0
  /\ answered' = <<>>
  /\ presses' = NoPresses
  /\ last_call' = Called("reset_quiz")

NextCalls ==
  \/ Loads
  \/ \E option \in SampleOptions : CallSelectOption(option)
  \/ CallSubmitAnswer
  \/ CallNextQuestion
  \/ CallResetQuiz

SpecCalls == Init /\ [][NextCalls]_vars

(***************************************************************************)
(* validate_csv on its own: the initial states draw the DataFrame and the  *)
(* one action is the run that validates it.  A frame is up to MaxRows      *)
(* rows: rows before the last come from two fixed rows (one that           *)
(* validates, one that does not), the last row from every combination of   *)
(* the cells below.                                                        *)
(***************************************************************************)
MaxCellLen == 3

StringsOver(alphabet, n) == UNION { [1..k -> alphabet] : k \in 0..n }

OptionsCellsA ==
  {NaN} \cup { Some(t) : t \in StringsOver({"a", "A", ",", " "}, MaxCellLen) \ {<<>>} }

AnswerCellsA ==
  {NaN} \cup { Some(t) : t \in {<<"a">>, <<"A">>, <<" ">>, <<" ", "a">>, <<"a", " ">>,
                                <<"a", "A">>, <<"n", "a", "n">>} }

LastRowsA == { RowA(Text1("q"), o, a) : o \in OptionsCellsA, a \in AnswerCellsA }

EarlierRowsA ==
  { RowA(Text1("p"), Some(<<"A", ",", " ", "B">>), Some(<<"B", " ">>)),
    RowA(Text1("p"), Text1("A"), Text1("A")) }

OptionCellsB ==
  {NaN} \cup { Some(t) : t \in {<<"a">>, <<"A">>, <<"2">>, <<"a", "B">>, <<"A", "b">>} }

AnswerCellsB ==
  {NaN} \cup { Some(t) : t \in {<<"a">>, <<"A">>, <<"b">>, <<"a", "b">>, <<"A", "B">>,
                                <<"0">>, <<"1">>, <<"2">>, <<"3">>, <<"4">>,
                                <<"0", "2">>, <<"1", "0">>} }

Row3(question, option1, option2, option3, answer) ==
  RowB(question, option1, option2, answer) @@ (COL_OPTION3 :> option3)

LastRowsB ==
  { Row3(Text1("q"), o1, o2, o3, a) :
      o1 \in OptionCellsB, o2 \in OptionCellsB, o3 \in OptionCellsB, a \in AnswerCellsB }

EarlierRowsB ==
  { Row3(Text1("p"), Text1("X"), NaN, Text1("Y"), Text1("2")),
    Row3(Text1("p"), Text1("X"), NaN, NaN, Text1("X")) }

RowSeqs(earlier, last) ==
  { e \o <<r>> : e \in UNION { [1..k -> earlier] : k \in 0..(MaxRows - 1) }, r \in last }

COLUMNS_A == <<COL_QUESTION, COL_OPTIONS, COL_ANSWER>>
COLUMNS_B == <<COL_QUESTION, COL_OPTION1, COL_OPTION2, COL_OPTION3, COL_ANSWER>>

(* other layouts: option columns out of order, both kinds of option        *)
(* column, a required column missing, neither format, no rows              *)
OtherFrames ==
  LET r == Row3(Text1("q"), Text1("a"), Text1("A"), NaN, Text1("2")) @@ (COL_OPTIONS :> Some(<<"a", ",", "b">>))
  IN { [columns |-> c, rows |-> rows] :
         c \in { <<COL_QUESTION, COL_OPTION2, COL_OPTION1, COL_ANSWER>>,
                 <<COL_QUESTION, COL_OPTION1, COL_OPTIONS, COL_ANSWER>>,
                 <<COL_QUESTION, COL_OPTIONS>>,
                 <<COL_OPTION1, COL_OPTION2, COL_ANSWER>>,
                 <<COL_QUESTION, COL_ANSWER>> },
         rows \in {<<>>, <<r>>} }

COL_OPTION4 == <<"o", "p", "t", "i", "o", "n", "4">>

Row4(question, option1, option2, option3, option4, answer) ==
  Row3(question, option1, option2, option3, answer) @@ (COL_OPTION4 :> option4)

(* the DataFrame read from get_sample_csv_content(): every column holds    *)
(* text in some row, so every cell, "4" included, is read as a string      *)
get_sample_csv_content ==
  [columns |-> <<COL_QUESTION, COL_OPTION1, COL_OPTION2, COL_OPTION3, COL_OPTION4,
                 COL_ANSWER>>,
   rows |-> <<
    Row4( Some(<<"W", "h", "a", "t", " ", "i", "s", " ", "t", "h", "e",
                 " ", "c", "a", "p", "i", "t", "a", "l", " ", "o", "f",
                 " ", "F", "r", "a", "n", "c", "e", "?">>),
          Some(<<"P", "a", "r", "i", "s">>),
          Some(<<"L", "o", "n", "d", "o", "n">>),
          Some(<<"B", "e", "r", "l", "i", "n">>),
          Some(<<"M", "a", "d", "r", "i", "d">>),
          Some(<<"P", "a", "r", "i", "s">>)),
    Row4( Some(<<"W", "h", "o", " ", "w", "r", "o", "t", "e", " ", "R",
                 "o", "m", "e", "o", " ", "a", "n", "d", " ", "J", "u",
                 "l", "i", "e", "t", "?">>),
          Some(<<"C", "h", "a", "r", "l", "e", "s", " ", "D", "i", "c",
                 "k", "e", "n", "s">>),
          Some(<<"W", "i", "l", "l", "i", "a", "m", " ", "S", "h", "a",
                 "k", "e", "s", "p", "e", "a", "r", "e">>),
          Some(<<"J", "a", "n", "e", " ", "A", "u", "s", "t", "e", "n">>),
          Some(<<"M", "a", "r", "k", " ", "T", "w", "a", "i", "n">>),
          Some(<<"W", "i", "l", "l", "i", "a", "m", " ", "S", "h", "a",
                 "k", "e", "s", "p", "e", "a", "r", "e">>)),
    Row4( Some(<<"W", "h", "a", "t", " ", "i", "s", " ", "t", "h", "e",
                 " ", "l", "a", "r", "g", "e", "s", "t", " ", "p", "l",
                 "a", "n", "e", "t", " ", "i", "n", " ", "o", "u", "r",
                 " ", "s", "o", "l", "a", "r", " ", "s", "y", "s", "t",
                 "e", "m", "?">>),
          Some(<<"E", "a", "r", "t", "h">>),
          Some(<<"M", "a", "r", "s">>),
          Some(<<"J", "u", "p", "i", "t", "e", "r">>),
          Some(<<"V", "e", "n", "u", "s">>),
          Some(<<"J", "u", "p", "i", "t", "e", "r">>)),
    Row4( Some(<<"W", "h", "a", "t", " ", "i", "s", " ", "2", "+", "2",
                 "?">>),
          Some(<<"2">>),
          Some(<<"3">>),
          Some(<<"4">>),
          Some(<<"5">>),
          Some(<<"4">>)),
    Row4( Some(<<"W", "h", "a", "t", " ", "i", "s", " ", "t", "h", "e",
                 " ", "c", "h", "e", "m", "i", "c", "a", "l", " ", "s",
                 "y", "m", "b", "o", "l", " ", "f", "o", "r", " ", "w",
                 "a", "t", "e", "r", "?">>),
          Some(<<"H", "2", "O">>),
          Some(<<"C", "O", "2">>),
          Some(<<"O", "2">>),
          Some(<<"N", "2">>),
          Some(<<"H", "2", "O">>)) >>]

CsvFrames ==
  { [columns |-> COLUMNS_A, rows |-> rows] : rows \in RowSeqs(EarlierRowsA, LastRowsA) }
    \cup { [columns |-> COLUMNS_B, rows |-> rows] : rows \in RowSeqs(EarlierRowsB, LastRowsB) }
    \cup OtherFrames
    \cup {get_sample_csv_content}

InitCsv ==
  /\ session_state = InitialSessionState
  /\ db = EmptyDb
  /\ uploaded_file \in { Some(f) : f \in CsvFrames }
  /\ validation = None
  /\ last_call = NoCall
  /\ run_saves = 0
  /\ loaded_by = "none"
  /\ created = <<>>
  /\ answered = <<>>
  /\ presses = NoPresses

(* is_valid, result = validate_csv(uploaded_file)  (line 585) *)
ValidateUpload ==
  /\ uploaded_file # None
  /\ validation = None
  /\ validation' = Some(validate_csv(Get(uploaded_file)))
  /\ UNCHANGED <<session_state, db, uploaded_file, last_call, run_saves, loaded_by, created,
                 answered, presses>>

NextCsv == ValidateUpload

SpecCsv == InitCsv /\ [][NextCsv]_vars

(***************************************************************************)
(* The persistence functions called directly, with quiz data that          *)
(* validate_csv produced from cells holding the characters JSON escapes    *)
(* or gives a meaning to.                                                  *)
(***************************************************************************)
DbRows ==
  { RowB(Text1("q"), Some(o1), Some(o2), Text1("1")) :
      o1 \in {<<"a", "\"">>, <<"\\">>},
      o2 \in {<<",">>, <<"\\", "\"">>, <<"]", " ">>} }

DbEarlierRow == RowB(Text1("p"), Text1("X"), Text1("Y"), Text1("2"))

DbQuizData ==
  { validate_csv(FrameB(rows)).data :
      rows \in { <<r>> : r \in DbRows } \cup { <<DbEarlierRow, r>> : r \in DbRows }
                 \cup { <<r, DbEarlierRow>> : r \in DbRows } }

DbCreate(quiz_data, fail_at) ==
  /\ Len(db.quizzes) < MaxQuizzes
  /\ LET r == create_quiz_from_csv(db, QUIZ_TITLE, QUIZ_DESCRIPTION, quiz_data, fail_at) IN
     /\ db' = r.db
     /\ last_call' = [call |-> "create_quiz_from_csv", fail_at |-> fail_at, ret |-> r.ret]
     /\ created' = IF r.ret # None
                     THEN Append(created, [id |-> Get(r.ret), quiz_data |-> quiz_data])
                     ELSE created
  /\ UNCHANGED <<session_state, uploaded_file, validation, run_saves, loaded_by, answered, presses>>

NextDb == \E quiz_data \in DbQuizData : \E fail_at \in FailPoints(quiz_data) :
            DbCreate(quiz_data, fail_at)

SpecDb == Init /\ [][NextDb]_vars

(***************************************************************************)
(* One run of a quiz through the enabled controls, from the state a load   *)
(* leaves: a quiz of 1..MaxQuestions questions (options X and Y, the       *)
(* answer given as the index 1 or 2 in turn) stored and then loaded in any *)
(* shuffled order.                                                         *)
(***************************************************************************)
MaxQuestions == 3

RunRow(k) ==
  RowB(Some(<<"q", Digits_in_order[k + 1]>>), Text1("X"), Text1("Y"),
       Text1(IF k % 2 = 1 THEN "2" ELSE "1"))

RunFrame(n) == FrameB([k \in 1..n |-> RunRow(k)])

InitRun ==
  \E n \in 1..MaxQuestions : \E p \in Shuffles(n) :
    LET result == validate_csv(RunFrame(n)).data
        r == create_quiz_from_csv(EmptyDb, QUIZ_TITLE, QUIZ_DESCRIPTION, result, None)
        got == get_quiz_by_id(r.db, Get(r.ret))
    IN /\ db = r.db
       /\ session_state =
            [reset_quiz([InitialSessionState EXCEPT !.quiz_id = Some(Get(got.quiz).id)])
               EXCEPT !.quiz_data = Some(shuffle_quiz_data(got.questions, p))]
       /\ created = <<[id |-> Get(r.ret), quiz_data |-> result]>>
       /\ uploaded_file = None
       /\ validation = None
       /\ last_call = NoCall
       /\ run_saves = 0
       /\ loaded_by = "load"
       /\ answered = <<>>
       /\ presses = NoPresses

NextRun ==
  \/ \E option \in SampleOptions : ClickOption(option)
  \/ ClickSubmit
  \/ ClickNext
  \/ \E user_name \in UserNames : \E fails \in BOOLEAN : SaveScore(user_name, fails)

SpecRun == InitRun /\ [][NextRun]_vars

(* the same run by a user who presses Submit and Next whenever the page     *)
(* keeps them enabled                                                       *)
SpecRunFair ==
  /\ InitRun
  /\ [][NextRun]_vars
  /\ WF_vars(ClickSubmit)
  /\ WF_vars(ClickNext)

(***************************************************************************)
(* The script with two different quizzes to create, of one question each:  *)
(* quizzes are created, loaded, taken, saved and reset in any order the    *)
(* enabled controls allow.                                                 *)
(***************************************************************************)
CatalogFrames ==
  { FrameB(<<RowB(Text1("1"), Text1("X"), Text1("Y"), Text1("2"))>>),
    FrameB(<<RowB(Text1("2"), Text1("a"), Text1("A"), Text1("A"))>>) }

NextCatalog ==
  \/ \E f \in CatalogFrames : Upload(f)
  \/ \E fail_at \in FailPoints(IF validation = None THEN <<>> ELSE Get(validation).data) :
       \E p \in Shuffles(IF validation = None THEN 0 ELSE Len(Get(validation).data)) :
         CreateQuiz(fail_at, p)
  \/ \E quiz_id \in 1..Len(db.quizzes) :
       \E p \in Shuffles(Len(get_quiz_by_id(db, quiz_id).questions)) :
         LoadSelectedQuiz(quiz_id, p)
  \/ NewSession
  \/ ClickReset
  \/ \E user_name \in UserNames : \E fails \in BOOLEAN : SaveScore(user_name, fails)
  \/ \E option \in SampleOptions : ClickOption(option)
  \/ ClickSubmit
  \/ ClickNext

SpecCatalog == Init /\ [][NextCatalog]_vars

(***************************************************************************)
(* The leaderboard functions called directly: attempts of any score saved  *)
(* for any quiz id under a name or none, and the leaderboard of a quiz     *)
(* read with any limit up to the size of the table.                        *)
(***************************************************************************)
BoardSave(quiz_id, user_name, score, max_score, fails) ==
  /\ Len(db.quiz_attempts) < MaxAttempts
  /\ LET r == save_quiz_attempt(db, quiz_id, user_name, score, max_score, fails) IN
     /\ db' = r.db
     /\ last_call' = [call |-> "save_quiz_attempt", ret |-> r.ret]
  /\ UNCHANGED <<session_state, uploaded_file, validation, run_saves, loaded_by, created,
                 answered, presses>>

BoardRead(quiz_id, limit, scan) ==
  /\ last_call' = [call |-> "get_quiz_leaderboard", quiz_id |-> quiz_id, limit |-> limit,
                   ret |-> get_quiz_leaderboard(db, quiz_id, limit, scan)]
  /\ UNCHANGED <<session_state, db, uploaded_file, validation, run_saves, loaded_by, created,
                 answered, presses>>

AttemptsOf(d, quiz_id) ==
  LET of_quiz(r) == r.quiz_id = quiz_id IN SelectSeq(d.quiz_attempts, of_quiz)

NextBoard ==
  \/ \E quiz_id \in 1..MaxQuizzes : \E user_name \in {<<>>, <<"N">>} :
       \E score \in 0..2 : \E fails \in BOOLEAN :
         BoardSave(quiz_id, user_name, score, 2, fails)
  \/ \E quiz_id \in 1..MaxQuizzes : \E limit \in 0..MaxAttempts :
       \E scan \in Permutations(1..Len(AttemptsOf(db, quiz_id))) :
         BoardRead(quiz_id, limit, scan)

SpecBoard == Init /\ [][NextBoard]_vars

(***************************************************************************)
(* The properties.                                                         *)
(***************************************************************************)
SessionFields(ss) ==
  <<ss.score, ss.current_question, ss.selected_option, ss.submitted, ss.quiz_completed>>

Loaded == ~quiz_data_falsy(session_state)

(* C1: once the current question has been submitted (submitted is True and *)
(* an option is selected), a further call of submit_answer leaves the      *)
(* score unchanged.                                                        *)
C1_SubmitAgainKeepsScore ==
  [][(/\ Loaded
      /\ session_state.submitted
      /\ session_state.selected_option # None
      /\ CallSubmitAnswer)
       => session_state'.score = session_state.score]_vars

(* C2: a call of select_option after the current question has been         *)
(* submitted changes none of selected_option, submitted, score,            *)
(* current_question and quiz_completed.                                    *)
C2_SelectAfterSubmitIgnored ==
  [][(/\ Loaded
      /\ session_state.submitted
      /\ \E option \in SampleOptions : CallSelectOption(option))
       => SessionFields(session_state') = SessionFields(session_state)]_vars

(* C3: a call of next_question while the current question has not been     *)
(* submitted changes none of current_question, selected_option, submitted, *)
(* score and quiz_completed.                                               *)
C3_NextBeforeSubmitIgnored ==
  [][(/\ Loaded
      /\ ~session_state.submitted
      /\ CallNextQuestion)
       => SessionFields(session_state') = SessionFields(session_state)]_vars

(* C4: once quiz_completed is True, no call of select_option,              *)
(* submit_answer or next_question changes score, current_question,         *)
(* selected_option, submitted or quiz_completed.                           *)
C4_CompletedIsTerminal ==
  [][(/\ Loaded
      /\ session_state.quiz_completed
      /\ \/ \E option \in SampleOptions : CallSelectOption(option)
         \/ CallSubmitAnswer
         \/ CallNextQuestion)
       => SessionFields(session_state') = SessionFields(session_state)]_vars

(* C5: between a run reaching Completed and the next reset or load, at     *)
(* most one row is inserted into quiz_attempts for that run.               *)
C5_OneAttemptPerRun == run_saves <= 1

IsPermutationOf(a, b) ==
  /\ Len(a) = Len(b)
  /\ \E p \in Permutations(1..Len(b)) : \A k \in 1..Len(b) : a[k] = b[p[k]]

FreshlyLoaded(ss, d) ==
  /\ ss.quiz_data # None
  /\ ss.quiz_id # None
  /\ IsPermutationOf(Get(ss.quiz_data), get_quiz_by_id(d, Get(ss.quiz_id)).questions)
  /\ Get(ss.quiz_data) # <<>>
  /\ ss.current_question = 0
  /\ ss.score = 0
  /\ ss.selected_option = None
  /\ ~ss.submitted
  /\ ~ss.quiz_completed

(* C6: a load by either path ("Load Selected Quiz", or "Create Quiz" after *)
(* a successful save) leaves quiz_data a permutation of the quiz's         *)
(* questions, current_question = 0, score = 0, selected_option = None,     *)
(* submitted = False and quiz_completed = False, whatever came before.     *)
C6_LoadStartsAtIndexZero ==
  loaded_by # "none" => FreshlyLoaded(session_state, db)

(* a quiz loaded in shuffled order, after an earlier run was completed and *)
(* its score saved                                                         *)
C6_Witness ==
  /\ loaded_by = "create"
  /\ FreshlyLoaded(session_state, db)
  /\ Get(session_state.quiz_data) # get_quiz_by_id(db, Get(session_state.quiz_id)).questions
  /\ db.quiz_attempts # <<>>
  /\ \E k \in 1..Len(db.quiz_attempts) : db.quiz_attempts[k].score > 0
  /\ Len(db.quizzes) > 1

Grown(before, after, n) ==
  /\ Len(after) = Len(before) + n
  /\ SubSeq(after, 1, Len(before)) = before

(* C7: when the insert of the quiz row or of any question row fails,       *)
(* create_quiz_from_csv returns None and leaves the quizzes and questions  *)
(* tables as they were; when it succeeds it adds exactly one quiz row and  *)
(* N question rows, with positions 1..N.                                   *)
C7_CreateAllOrNothing ==
  [][last_call'.call = "create_quiz_from_csv" =>
       IF last_call'.fail_at # None
         THEN last_call'.ret = None /\ db' = db /\ created' = created
         ELSE LET quiz_data == created'[Len(created')].quiz_data IN
              /\ last_call'.ret = Some(Len(db.quizzes) + 1)
              /\ Len(created') = Len(created) + 1
              /\ Grown(db.quizzes, db'.quizzes, 1)
              /\ db'.quizzes[Len(db'.quizzes)].id = Get(last_call'.ret)
              /\ Grown(db.questions, db'.questions, Len(quiz_data))
              /\ \A k \in 1..Len(quiz_data) :
                   LET q == db'.questions[Len(db.questions) + k] IN
                   q.position = k /\ q.quiz_id = Get(last_call'.ret)
              /\ db'.quiz_attempts = db.quiz_attempts]_vars

(* a create that failed at its second question row, in a database that     *)
(* already held a quiz, and left one quiz and its questions                *)
C7_Witness ==
  /\ last_call.call = "create_quiz_from_csv"
  /\ last_call.fail_at = Some(2)
  /\ last_call.ret = None
  /\ Len(db.quizzes) = 1
  /\ Len(db.questions) = Len(created[1].quiz_data)

(* C8: get_quiz_by_id on an id that create_quiz_from_csv returned yields   *)
(* the questions given to that create, in the same order, with the same    *)
(* option lists and answers, whatever other quizzes were created before or *)
(* after.                                                                  *)
C8_CreateThenGetRoundTrip ==
  \A k \in 1..Len(created) :
    LET got == get_quiz_by_id(db, created[k].id) IN
    got.quiz # None /\ got.questions = created[k].quiz_data

(* two quizzes stored, the first with two questions, one of its options    *)
(* holding a quote or a backslash                                          *)
C8_Witness ==
  /\ Len(created) = 2
  /\ Len(created[1].quiz_data) = 2
  /\ created[1].quiz_data # created[2].quiz_data
  /\ \E i \in 1..2 : \E o \in 1..Len(created[1].quiz_data[i].options) :
       \E c \in {"\"", "\\"} : contains_char(created[1].quiz_data[i].options[o], c)

IsFormat1(data) == in_list(COL_OPTIONS, data.columns)

IsFormat2(data) ==
  /\ ~IsFormat1(data)
  /\ \E k \in 1..Len(data.columns) : startswith(data.columns[k], OPTION_PREFIX)

Accepted == IF validation = None THEN FALSE ELSE Get(validation).is_valid

(* C9: every question validate_csv produces from a format-1 file it        *)
(* accepts has at least 2 options and an answer that is, character for     *)
(* character, one of its options.                                          *)
C9_Format1AnswerIsAnOption ==
  (Accepted /\ IsFormat1(Get(uploaded_file))) =>
    \A i \in 1..Len(Get(validation).data) :
      LET q == Get(validation).data[i] IN
      /\ Len(q.options) >= 2
      /\ \E k \in 1..Len(q.options) : q.options[k] = q.answer

(* an accepted format-1 file of two rows whose last answer cell carries    *)
(* whitespace the stored answer does not                                   *)
C9_Witness ==
  /\ Accepted
  /\ IsFormat1(Get(uploaded_file))
  /\ Len(Get(validation).data) = 2
  /\ Get(validation).data[2].answer # str(Get(uploaded_file).rows[2][COL_ANSWER])

(* the non-empty option cells of a row, in column order *)
CollectedOptions(data, i) ==
  LET is_option(col) == startswith(col, OPTION_PREFIX) /\ data.rows[i][col] # NaN
      cols == SelectSeq(data.columns, is_option)
  IN [k \in 1..Len(cols) |-> Get(data.rows[i][cols[k]])]

HasColumns(data, columns) == \A k \in 1..Len(columns) : in_list(columns[k], data.columns)

Validated == validation # None /\ uploaded_file # None

(* C11: in a format-1 file, a row whose options cell holds no comma, all    *)
(* rows before it being valid, makes validate_csv fail with the error "Row  *)
(* i: At least 2 options are required", i the row's 1-based number.         *)
C11_SingleOptionRowFails ==
  (/\ Validated
   /\ IsFormat1(Get(uploaded_file))
   /\ HasColumns(Get(uploaded_file), <<COL_QUESTION, COL_ANSWER>>)) =>
    \A i \in 1..Len(Get(uploaded_file).rows) :
      (/\ notna(Get(uploaded_file).rows[i][COL_OPTIONS])
       /\ ~contains_char(str(Get(uploaded_file).rows[i][COL_OPTIONS]), ",")
       /\ \A j \in 1..(i - 1) : format1_row(Get(uploaded_file).rows[j], j).is_valid)
        => Get(validation) = Invalid("at_least_2_options", i)

OptionColumns(data) ==
  LET is_option_column(col) == startswith(col, OPTION_PREFIX)
  IN SelectSeq(data.columns, is_option_column)

(* row i of a file, taken on its own, does not validate *)
RowFails(data, i) ==
  IF IsFormat1(data) THEN ~format1_row(data.rows[i], i).is_valid
  ELSE ~format2_row(data.rows[i], OptionColumns(data), i).is_valid

HasRowFormat(data) ==
  /\ IsFormat1(data) \/ IsFormat2(data)
  /\ HasColumns(data, <<COL_QUESTION, COL_ANSWER>>)

(* C12: when a row of the uploaded file fails validation, validate_csv      *)
(* returns failure with the 1-based number of the first failing row and no  *)
(* question records, even when earlier rows were valid; and while the       *)
(* upload stands rejected no step adds a quiz row or a question row.        *)
C12_RowFailureAbortsBatch ==
  [][/\ (/\ validation' # None
         /\ uploaded_file' # None
         /\ HasRowFormat(Get(uploaded_file'))
         /\ \E i \in 1..Len(Get(uploaded_file').rows) : RowFails(Get(uploaded_file'), i))
          => LET data == Get(uploaded_file')
                 v == Get(validation')
             IN /\ ~v.is_valid
                /\ v.data = <<>>
                /\ v.row \in 1..Len(data.rows)
                /\ RowFails(data, v.row)
                /\ \A j \in 1..(v.row - 1) : ~RowFails(data, j)
     /\ (Validated /\ ~Get(validation).is_valid)
          => db'.quizzes = db.quizzes /\ db'.questions = db.questions]_vars

(* a file rejected at its second row, its first row being valid, uploaded   *)
(* when the database already held a quiz: nothing of it was stored          *)
C12_Witness ==
  /\ Validated
  /\ ~Get(validation).is_valid
  /\ Get(validation).row = 2
  /\ ~RowFails(Get(uploaded_file), 1)
  /\ Get(validation).error = "answer_index_out_of_range"
  /\ Len(db.quizzes) = 1
  /\ Len(db.questions) = 2

(* entry e of a leaderboard shows attempt row r *)
Shows(e, r) ==
  /\ e.score = r.score
  /\ e.max_score = r.max_score
  /\ e.percentage = r.percentage
  /\ e.user_name = (IF r.user_name = <<>> THEN ANONYMOUS ELSE r.user_name)

(* C13: get_quiz_leaderboard returns at most limit entries, each showing a  *)
(* different stored attempt of the quiz asked for, in non-increasing order  *)
(* of score.                                                                *)
C13_LeaderboardBoundedAndSorted ==
  last_call.call = "get_quiz_leaderboard" =>
    LET ret == last_call.ret
        rows == db.quiz_attempts
    IN /\ Len(ret) <= last_call.limit
       /\ \A k \in 1..(Len(ret) - 1) : ret[k].score >= ret[k + 1].score
       /\ \E f \in [1..Len(ret) -> 1..Len(rows)] :
            /\ \A j, k \in 1..Len(ret) : j # k => f[j] # f[k]
            /\ \A k \in 1..Len(ret) :
                 rows[f[k]].quiz_id = last_call.quiz_id /\ Shows(ret[k], rows[f[k]])

(* a leaderboard cut to one entry: of two attempts at the quiz the later,   *)
(* higher one is listed, the nameless attempt left out                      *)
C13_Witness ==
  /\ last_call.call = "get_quiz_leaderboard"
  /\ last_call.limit = 1
  /\ Len(db.quiz_attempts) = 2
  /\ \A k \in 1..2 : db.quiz_attempts[k].quiz_id = last_call.quiz_id
  /\ db.quiz_attempts[1].score < db.quiz_attempts[2].score
  /\ db.quiz_attempts[1].user_name = <<>>
  /\ Len(last_call.ret) = 1
  /\ last_call.ret[1].score = db.quiz_attempts[2].score

(* the last step called the named progression function with a quiz loaded *)
JustCalled(name) ==
  /\ last_call.call = name
  /\ ~quiz_data_falsy(last_call.before)

(* C14: next_question at the last index sets quiz_completed and leaves      *)
(* score, current_question, selected_option and submitted as they were; at  *)
(* an earlier index it adds 1 to current_question, clears selected_option   *)
(* and submitted, and leaves score and quiz_completed as they were.         *)
C14_NextQuestionFrame ==
  JustCalled("next_question") =>
    LET before == last_call.before
        after == session_state
        n == Len(Get(before.quiz_data))
    IN /\ after.score = before.score
       /\ after.quiz_data = before.quiz_data
       /\ before.current_question = n - 1 =>
            /\ after.quiz_completed
            /\ after.current_question = before.current_question
            /\ after.selected_option = before.selected_option
            /\ after.submitted = before.submitted
       /\ before.current_question < n - 1 =>
            /\ after.current_question = before.current_question + 1
            /\ after.selected_option = None
            /\ ~after.submitted
            /\ after.quiz_completed = before.quiz_completed

(* the call that completes a two-question quiz: made at the last index on   *)
(* a submitted question, with a point scored                                *)
C14_Witness ==
  /\ JustCalled("next_question")
  /\ last_call.before.current_question = Len(Get(last_call.before.quiz_data)) - 1
  /\ last_call.before.current_question > 0
  /\ ~last_call.before.quiz_completed
  /\ last_call.before.submitted
  /\ last_call.before.score > 0
  /\ session_state.quiz_completed

(* the questions of the run whose submitted option is the correct answer *)
CorrectlyAnswered(ss, a) ==
  { k \in DOMAIN a : a[k] = Get(ss.quiz_data)[k].answer }

(* C15: a run through a loaded quiz of N questions (for each question an    *)
(* option selected, submitted once, then the advance) ends in Completed     *)
(* with every question answered and score equal to the number of questions  *)
(* whose submitted option is the correct answer, N when all are; the score  *)
(* saved from the results page is that score out of N.                      *)
C15_ScoreCountsCorrectAnswers ==
  (Loaded /\ session_state.quiz_completed) =>
    LET n == Len(Get(session_state.quiz_data)) IN
    /\ DOMAIN answered = 1..n
    /\ session_state.score = Cardinality(CorrectlyAnswered(session_state, answered))
    /\ (\A k \in 1..n : answered[k] = Get(session_state.quiz_data)[k].answer)
         => session_state.score = n
    /\ \A k \in 1..Len(db.quiz_attempts) :
         /\ db.quiz_attempts[k].score = session_state.score
         /\ db.quiz_attempts[k].max_score = n

(* a three-question quiz, loaded in another order than stored, completed    *)
(* with every answer correct and saved as 3 out of 3                        *)
C15_Witness ==
  /\ Loaded
  /\ session_state.quiz_completed
  /\ Len(Get(session_state.quiz_data)) = 3
  /\ Get(session_state.quiz_data) # created[1].quiz_data
  /\ \A k \in 1..3 : k \in DOMAIN answered /\ answered[k] = Get(session_state.quiz_data)[k].answer
  /\ session_state.score = 3
  /\ db.quiz_attempts # <<>>
  /\ db.quiz_attempts[1].score = 3
  /\ db.quiz_attempts[1].max_score = 3
  /\ db.quiz_attempts[1].percentage = [num |-> 300, den |-> 3]

(* C16: submit_answer called while selected_option is None changes nothing: *)
(* submitted, score, current_question and quiz_completed stay as they were. *)
C16_SubmitWithoutSelectionIsNoOp ==
  (last_call.call = "submit_answer" /\ last_call.before.selected_option = None) =>
    /\ session_state.submitted = last_call.before.submitted
    /\ session_state.score = last_call.before.score
    /\ session_state.current_question = last_call.before.current_question
    /\ session_state.quiz_completed = last_call.before.quiz_completed
    /\ session_state.selected_option = None

(* submit_answer called on the second question of a loaded quiz, not yet    *)
(* submitted and with nothing selected, after a point scored on the first   *)
C16_Witness ==
  /\ JustCalled("submit_answer")
  /\ last_call.before.selected_option = None
  /\ ~last_call.before.submitted
  /\ ~last_call.before.quiz_completed
  /\ last_call.before.current_question = 1
  /\ last_call.before.score = 1
  /\ session_state = last_call.before

(* C17: reset_quiz, from whatever state it is called, leaves quiz_data =    *)
(* None, current_question = 0, score = 0, selected_option = None,           *)
(* submitted = False and quiz_completed = False, and leaves the stored      *)
(* quizzes, questions and attempts as they were.                            *)
C17_ResetReturnsToNotStarted ==
  [][last_call'.call = "reset_quiz" =>
       /\ session_state'.quiz_data = None
       /\ session_state'.current_question = 0
       /\ session_state'.score = 0
       /\ session_state'.selected_option = None
       /\ ~session_state'.submitted
       /\ ~session_state'.quiz_completed
       /\ last_call'.before = session_state
       /\ db' = db]_vars

(* reset_quiz called on a completed run with a point scored, the quiz       *)
(* stored in the database                                                   *)
C17_Witness ==
  /\ JustCalled("reset_quiz")
  /\ last_call.before.quiz_completed
  /\ last_call.before.submitted
  /\ last_call.before.selected_option # None
  /\ last_call.before.score > 0
  /\ last_call.before.current_question > 0
  /\ session_state.quiz_data = None
  /\ session_state.score = 0
  /\ db.quizzes # <<>>
  /\ db.questions # <<>>

(* C18: a format-2 row with at least 2 collected options whose answer cell  *)
(* is, character for character, one of those options is accepted, and the   *)
(* answer stored for it is that same text; so for every row of the sample   *)
(* CSV (options 2, 3, 4, 5 with answer 4 give "4").                         *)
C18_VerbatimAnswerKept ==
  (/\ Validated
   /\ IsFormat2(Get(uploaded_file))
   /\ HasColumns(Get(uploaded_file), <<COL_QUESTION, COL_ANSWER>>)) =>
    \A i \in 1..Len(Get(uploaded_file).rows) :
      LET options == CollectedOptions(Get(uploaded_file), i)
          cell == str(Get(uploaded_file).rows[i][COL_ANSWER])
          v == Get(validation)
      IN (/\ Len(options) >= 2
          /\ in_list(cell, options)
          /\ \A j \in 1..(i - 1) : ~RowFails(Get(uploaded_file), j))
           => /\ v.is_valid \/ v.row > i
              /\ v.is_valid => v.data[i].answer = cell

(* C19: through the controls the page leaves enabled, a loaded quiz always  *)
(* has 0 <= score <= current_question + (1 if submitted else 0) <=          *)
(* len(quiz_data): a question adds at most 1 to the score.                  *)
C19_ScoreBoundedByProgress ==
  Loaded =>
    LET progress == session_state.current_question
                      + (IF session_state.submitted THEN 1 ELSE 0)
    IN /\ 0 <= session_state.score
       /\ session_state.score <= progress
       /\ progress <= Len(Get(session_state.quiz_data))

(* the second question of a second run answered correctly, both points      *)
(* scored, after a first run was completed and its score saved              *)
C19_Witness ==
  /\ Loaded
  /\ session_state.current_question = 1
  /\ session_state.submitted
  /\ session_state.score = 2
  /\ ~session_state.quiz_completed
  /\ db.quiz_attempts # <<>>

(* C20: with a quiz loaded, whatever calls of select_option, submit_answer  *)
(* and next_question are made, current_question stays within               *)
(* 0 .. len(quiz_data) - 1, and no such call lowers it.                     *)
C20_IndexStaysInRange ==
  [][/\ ~quiz_data_falsy(session_state') =>
          session_state'.current_question \in 0..(Len(Get(session_state'.quiz_data)) - 1)
     /\ (Loaded /\ last_call'.call \in {"select_option", "submit_answer", "next_question"})
          => session_state'.current_question >= session_state.current_question]_vars

(* next_question called once more on a completed quiz, already at the last  *)
(* index: the index stays there                                             *)
C20_Witness ==
  /\ JustCalled("next_question")
  /\ last_call.before.quiz_completed
  /\ last_call.before.current_question = Len(Get(last_call.before.quiz_data)) - 1
  /\ session_state.current_question = Len(Get(session_state.quiz_data)) - 1
  /\ session_state.current_question > 0

(* C21: a row is added to quiz_attempts only while the session is           *)
(* Completed, one row at a time, with the session's score as its score and  *)
(* the number of questions of the loaded quiz as its max_score; no step     *)
(* taken while the run is NotStarted or in progress adds a row.             *)
C21_AttemptOnlyWhenCompleted ==
  [][db'.quiz_attempts # db.quiz_attempts =>
       /\ Loaded
       /\ session_state.quiz_completed
       /\ Grown(db.quiz_attempts, db'.quiz_attempts, 1)
       /\ LET row == db'.quiz_attempts[Len(db'.quiz_attempts)] IN
          /\ row.score = session_state.score
          /\ row.max_score = Len(Get(session_state.quiz_data))
          /\ row.percentage = percentage_of(session_state.score,
                                            Len(Get(session_state.quiz_data)))]_vars

(* a completed run of two questions with one point, saved as 1 out of 2 *)
C21_Witness ==
  /\ Loaded
  /\ session_state.quiz_completed
  /\ run_saves = 1
  /\ session_state.score = 1
  /\ Len(db.quiz_attempts) = 1
  /\ db.quiz_attempts[1].score = 1
  /\ db.quiz_attempts[1].max_score = 2

(* the session's quiz_id names a stored quiz whose questions are those in  *)
(* quiz_data                                                               *)
QuizIdMatchesQuizData(ss, d) ==
  /\ ss.quiz_id # None
  /\ LET got == get_quiz_by_id(d, Get(ss.quiz_id)) IN
     /\ got.quiz # None
     /\ IsPermutationOf(Get(ss.quiz_data), got.questions)

(* C22: whenever quiz_data is loaded, quiz_id is the id of the stored quiz  *)
(* whose questions are in quiz_data, and every row added to quiz_attempts   *)
(* carries that id, whatever creates, loads, resets and saves came before.  *)
C22_QuizIdIsTheQuizTaken ==
  [][/\ ~quiz_data_falsy(session_state') => QuizIdMatchesQuizData(session_state', db')
     /\ db'.quiz_attempts # db.quiz_attempts =>
          /\ Loaded
          /\ QuizIdMatchesQuizData(session_state, db)
          /\ db'.quiz_attempts[Len(db'.quiz_attempts)].quiz_id = Get(session_state.quiz_id)]_vars

(* two different quizzes stored, an attempt saved for each in turn, the     *)
(* second quiz the one now loaded                                           *)
C22_Witness ==
  /\ Loaded
  /\ Len(db.quizzes) = 2
  /\ get_quiz_by_id(db, 1).questions # get_quiz_by_id(db, 2).questions
  /\ session_state.quiz_id = Some(2)
  /\ Get(session_state.quiz_data) = get_quiz_by_id(db, 2).questions
  /\ Len(db.quiz_attempts) = 2
  /\ db.quiz_attempts[1].quiz_id = 1
  /\ db.quiz_attempts[2].quiz_id = 2

(* C23: quiz_data is always None or a non-empty list: validate_csv never    *)
(* succeeds with no question, no stored quiz is without questions, and      *)
(* every recorded attempt has max_score >= 1, so the percentage of the      *)
(* results page never divides by zero.                                      *)
C23_QuizDataNeverEmpty ==
  /\ session_state.quiz_data # None => Get(session_state.quiz_data) # <<>>
  /\ Accepted => Get(validation).data # <<>>
  /\ \A k \in 1..Len(db.quizzes) : get_quiz_by_id(db, db.quizzes[k].id).questions # <<>>
  /\ \A k \in 1..Len(db.quiz_attempts) : db.quiz_attempts[k].max_score >= 1

(* a file with a header line and no row, rejected as empty, in a session    *)
(* that has already stored a quiz and saved an attempt at it               *)
C23_Witness ==
  /\ Validated
  /\ Get(uploaded_file).rows = <<>>
  /\ Get(uploaded_file).columns # <<>>
  /\ Get(validation) = Invalid("empty", 0)
  /\ session_state.quiz_data = None
  /\ db.quizzes # <<>>
  /\ db.quiz_attempts # <<>>

InProgress == Loaded /\ ~session_state.quiz_completed

Completed == Loaded /\ session_state.quiz_completed

(* at completion every question has had one Submit and one Next *)
CompletedAfterNPresses ==
  Completed =>
    /\ presses.submits = Len(Get(session_state.quiz_data))
    /\ presses.nexts = Len(Get(session_state.quiz_data))

(* an in-progress page has a control the user can press *)
SomeControlEnabled ==
  InProgress =>
    \/ ENABLED (\E option \in SampleOptions : ClickOption(option))
    \/ ENABLED ClickSubmit
    \/ ENABLED ClickNext

(* C24 as stated: with Submit and Next pressed whenever they stay enabled   *)
(* and no reset, every loaded run that is not completed reaches Completed,  *)
(* after len(quiz_data) submits and len(quiz_data) next steps, and no       *)
(* in-progress state has every control disabled.                            *)
C24_SubmitAndNextFairnessCompletes ==
  /\ InProgress ~> Completed
  /\ []CompletedAfterNPresses
  /\ []SomeControlEnabled

(* C24 as amended: the same, for a user who also selects an option          *)
(* whenever the option buttons stay enabled.                                *)
C24_FairClicksComplete ==
  /\ WF_vars(\E option \in SampleOptions : ClickOption(option))
       => (InProgress ~> Completed)
  /\ []CompletedAfterNPresses
  /\ []SomeControlEnabled

(* a three-question run completed: three submits, three next steps *)
C24_Witness ==
  /\ Completed
  /\ Len(Get(session_state.quiz_data)) = 3
  /\ presses = [submits |-> 3, nexts |-> 3]
  /\ DOMAIN answered = 1..3

====
